---- MODULE Spec2Model ----
(***************************************************************************)
(* Task lifecycle of a2a_adapter (src/a2a_adapter/core/lifecycle.py) and   *)
(* the event envelope of src/a2a_adapter/core/rpc.py.                      *)
(*                                                                         *)
(* The program runs on one asyncio event loop: a coroutine runs without    *)
(* interruption until it suspends.  Acquiring a free asyncio.Lock does not *)
(* suspend, and no coroutine of lifecycle.py suspends inside an            *)
(* "async with lock" block, so every action below is the code between two  *)
(* suspension points (an await of the skill, a yield of the generator, an  *)
(* asyncio.sleep).                                                         *)
(*                                                                         *)
(* time.time() advances only between actions (action Tick).  The program   *)
(* reads the clock only to compare "time.time() - last_heartbeat" and      *)
(* "time.time() - timeout_start" with a threshold, so a generator's frame  *)
(* keeps these two differences, since_heartbeat and since_timeout_start,   *)
(* instead of the two time stamps; a difference that has passed its        *)
(* threshold stays there.  The stamps created_at and last_update, which    *)
(* the program never reads, are kept as the name of the write that set     *)
(* them.                                                                   *)
(***************************************************************************)
EXTENDS Integers, Sequences, FiniteSets, TLC

\* ------------------------------------------------------------------ bounds
MaxTasks == 2
MaxSubs == 1
MaxCoroutines == 2
MaxEvents == 5

\* ------------------------------------------------------- program constants
heartbeat_interval == 10
startup_timeout == 30
SERVER_ERROR_START == -32000
INVALID_REQUEST == -32600
METHOD_NOT_FOUND == -32601
INTERNAL_ERROR == -32603
TASK_NOT_FOUND == -32001
SKILL_NOT_FOUND == -32002
HTTP_200_OK == 200
HTTP_202_ACCEPTED == 202
HTTP_500_INTERNAL_SERVER_ERROR == 500

\* Python's None
None == "None"

\* The ids uuid.uuid4() can return, the subscriptions and the clock values.
TaskIds == 1..MaxTasks
SubIds == 1..MaxSubs

\* Inputs of create_task: the skill functions, their arguments, request ids.
\*   test_fn      returns "Result: <args>"           (tests/test_lifecycle.py)
\*   return_empty returns the empty string
\*   raise_msg    raises Exception("boom")
\*   raise_empty  raises Exception(), whose str() is the empty string
\*   raise_base   raises a BaseException that is not an Exception
\*                (asyncio.CancelledError, SystemExit)
Skills == {"test_fn", "return_empty", "raise_msg", "raise_empty", "raise_base"}
Args == {"input-0", "input-1"}
RequestIds == {"request-0", "request-1"}

\* The calls of create_task the model makes: (skill_fn, args, request_id).
Calls ==
    {<<"test_fn", "input-0", "request-0">>, <<"test_fn", "input-1", "request-1">>,
     <<"raise_msg", "input-0", "request-0">>, <<"raise_empty", "input-1", "request-1">>,
     <<"raise_base", "input-0", "request-1">>,
     <<"return_empty", "input-0", "request-1">>}

\* The amounts of time (seconds) that pass between two steps of the event loop.
TickSteps == {heartbeat_interval + 1, startup_timeout + 1}

\* time.time() - stamp, d seconds after it was a; past is the threshold the
\* program compares the difference with.
Elapsed(a, d, past) == IF a + d > past THEN past + 1 ELSE a + d

VARIABLES
    _tasks,       \* lifecycle._tasks: task id -> record
    _task_locks,  \* lifecycle._task_locks: task id -> lock
    executors,    \* the _execute_task coroutines scheduled by asyncio.create_task
    subs,         \* the generate_task_events generators
    returned,     \* the ids create_task has returned, in order
    accepted_for, \* task id -> time.time() - created_at while the status is
                  \* accepted; followed by TickAccepted only (SpecStartup)
    http,         \* the last request to an endpoint and the response to it
    lock_holder,  \* line by line: the coroutine that holds the task's lock
    at_line       \* line by line: the line each coroutine is at

vars == <<_tasks, _task_locks, executors, subs, returned, accepted_for, http,
          lock_holder, at_line>>

\* The variables the task lifecycle does not write: the exchange of the
\* endpoints and the line-by-line view of one task's lock.
aux == <<http, lock_holder, at_line>>

\* The coroutines the event loop has been given: the executors and the
\* generators that were started.
Coroutines == Len(executors) + Cardinality({s \in SubIds : subs[s].pc # "idle"})

\* d[k] = v of a Python dict: inserts or overwrites.
SetItem(d, k, v) == [x \in DOMAIN d \cup {k} |-> IF x = k THEN v ELSE d[x]]

\* ------------------------------------------------------------ the skills
SkillReturns(fn) == fn \in {"test_fn", "return_empty"}
SkillRaisesException(fn) == fn \in {"raise_msg", "raise_empty"}
SkillRaisesBaseException(fn) == fn = "raise_base"

\* The value the skill returns: f"Result: {args}" for test_fn.
SkillResult(fn, args) ==
    CASE fn = "return_empty" -> ""
      [] args = "input-0" -> "Result: input-0"
      [] args = "input-1" -> "Result: input-1"
      [] OTHER -> "Result: "

\* str(e) of the exception the skill raises
ExcStr(fn) == IF fn = "raise_msg" THEN "boom" ELSE ""

\* ------------------------------------------------------------ the envelope
\* JSONRPCErrorData built from data.get("message", "Unknown error"): the key
\* is absent from the payload and the default is taken.
JSONRPCErrorDataUnknown(error) == {<<"error", "Unknown error">>}

\* JSONRPCErrorData(error=...).dict(exclude_none=True): the set of its members.
JSONRPCErrorData(error) == IF error = None THEN {} ELSE {<<"error", error>>}

\* The payloads the generator passes besides a result and an error: the
\* empty dict, and {"timestamp": time.time()} of a heartbeat.
EmptyDict == "{}"
HeartbeatData == "{timestamp: time.time()}"

\* bool(data) for the values a payload can take
Truthy(data) == data \notin {None, "", EmptyDict}

\* rpc.format_sse_event; data is the event's payload.  For "failed" the
\* payload is the dict {"error": error}, passed here as error.
format_sse_event(event_type, request_id, data) ==
    IF event_type = "failed"
    THEN [event |-> event_type,
          data |-> [jsonrpc |-> "2.0", id |-> request_id,
                    error |-> [code |-> SERVER_ERROR_START,
                               message |-> "Task execution failed",
                               data |-> JSONRPCErrorData(data)]]]
    ELSE [event |-> event_type,
          data |-> [jsonrpc |-> "2.0", id |-> request_id,
                    result |-> IF event_type = "completed" /\ Truthy(data)
                               THEN [status |-> event_type, data |-> data]
                               ELSE [status |-> event_type]]]

\* ---------------------------------------------------------------- the store
\* uuid.uuid4(): a random 122-bit value.  Two calls return the same value
\* with probability 2^-122; the model takes the values drawn to be pairwise
\* distinct and names them 1, 2, ... in the order they are drawn.
uuid4 == Len(returned) + 1

\* The record create_task stores.
NewTask(skill_fn, args, request_id) ==
    [status |-> "accepted", request_id |-> request_id, function |-> skill_fn,
     args |-> args, result |-> None, error |-> None,
     created_at |-> "created", last_update |-> "created"]

\* TaskKey with the store keyed by the caller's request id.
TaskKeyByRequest(task_id, request_id) == IF request_id = "request-0" THEN 1 ELSE 2

\* The key create_task stores the lock and the record under.
TaskKey(task_id, request_id) == task_id

\* What "asyncio.create_task(_execute_task(task_id))" leaves behind when
\* create_task returns: a coroutine that has not run yet.  calls counts the
\* calls of the skill.
ScheduledExecutor(task_id) ==
    [task_id |-> task_id, pc |-> "scheduled", fn |-> None, args |-> None, calls |-> 0]

\* Schedule with the executor scheduled twice.
ScheduleTwice(task_id) == <<ScheduledExecutor(task_id), ScheduledExecutor(task_id)>>

\* Schedule with "await _execute_task(task_id)" in place of
\* asyncio.create_task: the skill is called before create_task returns.
ScheduleAwaited(task_id) ==
    <<[ScheduledExecutor(task_id) EXCEPT !.pc = "awaiting", !.calls = 1]>>

\* The coroutines create_task hands to the event loop.
Schedule(task_id) == <<ScheduledExecutor(task_id)>>

\* lifecycle.create_task.  The lock is new and free, so "async with" does not
\* suspend, and the coroutine returns without suspending.  What the caller
\* answers (http) is the caller's.
create_task(skill_fn, args, request_id) ==
    LET task_id == TaskKey(uuid4, request_id) IN
    /\ Len(returned) < MaxTasks
    /\ Coroutines < MaxCoroutines
    /\ _task_locks' = SetItem(_task_locks, task_id, "unlocked")
    /\ _tasks' = SetItem(_tasks, task_id, NewTask(skill_fn, args, request_id))
    /\ executors' = executors \o Schedule(task_id)
    /\ returned' = Append(returned, task_id)
    /\ accepted_for' = SetItem(accepted_for, task_id, 0)
    /\ UNCHANGED <<subs, lock_holder, at_line>>

\* get_task ending in "return _tasks.get(task_id, {})" for an unknown id.
get_taskOrEmpty(task_id) ==
    IF task_id \notin DOMAIN _tasks \/ task_id \notin DOMAIN _task_locks
    THEN "{}"
    ELSE _tasks[task_id]

\* lifecycle.get_task: what it returns in the current state.  Its lock is
\* free whenever the event loop runs it, and it writes nothing.
get_task(task_id) ==
    IF task_id \notin DOMAIN _tasks \/ task_id \notin DOMAIN _task_locks
    THEN None
    ELSE _tasks[task_id]

\* lifecycle.task_exists: what it returns in the current state.
task_exists(task_id) == task_id \in DOMAIN _tasks

\* ------------------------------------------------------------- the executor
\* The record after lines 81-82.
SetRunning(task) == [task EXCEPT !.status = "running", !.last_update = "running"]

\* lifecycle._execute_task, lines 65-85: from the coroutine's first step to
\* the call of the skill.  The await of the skill is the suspension point.
ExecStart(e) ==
    LET task_id == executors[e].task_id IN
    /\ executors[e].pc = "scheduled"
    /\ IF task_id \notin DOMAIN _tasks \/ task_id \notin DOMAIN _task_locks
       THEN /\ executors' = [executors EXCEPT ![e].pc = "done"]
            /\ UNCHANGED _tasks
       ELSE /\ _task_locks[task_id] = "unlocked"
            /\ _tasks' = [_tasks EXCEPT ![task_id] = SetRunning(@)]
            /\ executors' = [executors EXCEPT ![e].pc = "awaiting",
                                              ![e].fn = _tasks[task_id]["function"],
                                              ![e].args = _tasks[task_id].args,
                                              ![e].calls = @ + 1]
    /\ UNCHANGED <<_task_locks, subs, returned, accepted_for, aux>>

\* UpdateTask writing through a module-level "current task" that every
\* create_task overwrites: the record written is the newest task's.
UpdateNewestTask(T, task_id, task) == [T EXCEPT ![Len(returned)] = task]

\* "_tasks[task_id][...] = ..." of lines 89-92 and 97-100: only the record
\* of task_id is written.
UpdateTask(T, task_id, task) == [T EXCEPT ![task_id] = task]

\* The record after lines 88-92.
StoreResult(task, result) ==
    [task EXCEPT !.result = result, !.status = "completed", !.last_update = "completed"]

\* The record after lines 96-100.
StoreError(task, error) ==
    [task EXCEPT !.error = error, !.status = "failed", !.last_update = "failed"]

\* Lines 85-92: the skill returns and the result is stored.
ExecReturn(e) ==
    LET task_id == executors[e].task_id IN
    /\ executors[e].pc = "awaiting"
    /\ SkillReturns(executors[e].fn)
    /\ _task_locks[task_id] = "unlocked"
    /\ _tasks' = UpdateTask(_tasks, task_id,
                     StoreResult(_tasks[task_id],
                                 SkillResult(executors[e].fn, executors[e].args)))
    /\ executors' = [executors EXCEPT ![e].pc = "done"]
    /\ UNCHANGED <<_task_locks, subs, returned, accepted_for, aux>>

\* Lines 85, 94-100: the skill raises an Exception and the handler stores it.
ExecRaise(e) ==
    LET task_id == executors[e].task_id IN
    /\ executors[e].pc = "awaiting"
    /\ SkillRaisesException(executors[e].fn)
    /\ _task_locks[task_id] = "unlocked"
    /\ _tasks' = UpdateTask(_tasks, task_id,
                     StoreError(_tasks[task_id], ExcStr(executors[e].fn)))
    /\ executors' = [executors EXCEPT ![e].pc = "done"]
    /\ UNCHANGED <<_task_locks, subs, returned, accepted_for, aux>>

\* Lines 85, 94: the skill raises a BaseException, which "except Exception"
\* does not catch: it leaves the coroutine and the record is not written.
ExecEscape(e) ==
    /\ executors[e].pc = "awaiting"
    /\ SkillRaisesBaseException(executors[e].fn)
    /\ executors' = [executors EXCEPT ![e].pc = "escaped"]
    /\ UNCHANGED <<_tasks, _task_locks, subs, returned, accepted_for, aux>>

ExecStep(e) == ExecStart(e) \/ ExecReturn(e) \/ ExecRaise(e) \/ ExecEscape(e)

\* ------------------------------------------------------------ the generator
\* lifecycle.generate_task_events.  g is the generator's frame (its locals,
\* the events it has yielded and the line it is suspended at), T the task
\* store.  Each operator below is a stretch of the function's code and gives
\* the frame and the store at the next suspension point.  Besides the locals,
\* the frame keeps two facts of the generator's past: initial_status, the
\* status read at line 154, and since_event, the time since its last yield.
IdleGenerator ==
    [pc |-> "idle", task_id |-> 0, request_id |-> None, task_status |-> None,
     since_heartbeat |-> 0, since_timeout_start |-> 0,
     result |-> None, error |-> None, events |-> <<>>,
     initial_status |-> None, since_event |-> 0]

\* Yield with the request id never read from the record: it is still the
\* None of line 145.
YieldNoId(g, event_type, data, line) ==
    [g EXCEPT !.events = Append(@, format_sse_event(event_type, None, data)),
              !.since_event = 0,
              !.pc = line]

\* "yield format_sse_event(...)": the event is handed to the consumer and
\* the generator is suspended at that line.
Yield(g, event_type, data, line) ==
    [g EXCEPT !.events = Append(@, format_sse_event(event_type, g.request_id, data)),
              !.since_event = 0,
              !.pc = line]

\* FinalEvent without the "else" of line 216: a completed task's stream gets
\* the failed event as well.
FinalEventNoElse(g, T) ==
    LET h == [g EXCEPT !.result = T[g.task_id].result, !.error = T[g.task_id].error] IN
    [g |-> IF h.task_status = "completed"
           THEN Yield(Yield(h, "completed", h.result, "yield_final"),
                      "failed", h.error, "yield_final")
           ELSE Yield(h, "failed", h.error, "yield_final"),
     T |-> T]

\* FinalEvent without the test of line 214: the stream ends with completed
\* whatever the status.
FinalEventCompleted(g, T) ==
    LET h == [g EXCEPT !.result = T[g.task_id].result, !.error = T[g.task_id].error] IN
    [g |-> Yield(h, "completed", h.result, "yield_final"), T |-> T]

\* Lines 205-217: the final read and the terminal event.
FinalEvent(g, T) ==
    LET h == [g EXCEPT !.result = T[g.task_id].result, !.error = T[g.task_id].error] IN
    [g |-> IF h.task_status = "completed"
           THEN Yield(h, "completed", h.result, "yield_final")
           ELSE Yield(h, "failed", h.error, "yield_final"),
     T |-> T]

\* PollRunning with the poll stamping the record it reads.
PollRunningStamps(g, T) ==
    [g |-> [g EXCEPT !.task_status = T[g.task_id].status, !.pc = "sleep_running"],
     T |-> [T EXCEPT ![g.task_id].last_update = "polled"]]

\* Lines 196-203: the poll of the running phase, up to the sleep.
PollRunning(g, T) ==
    [g |-> [g EXCEPT !.task_status = T[g.task_id].status, !.pc = "sleep_running"],
     T |-> T]

\* Lines 190-194: the head of the running loop and its heartbeat.
WhileRunning(g, T) ==
    IF g.task_status = "running"
    THEN IF g.since_heartbeat > heartbeat_interval
         THEN [g |-> Yield(g, "heartbeat", HeartbeatData, "yield_heartbeat_running"), T |-> T]
         ELSE PollRunning(g, T)
    ELSE FinalEvent(g, T)

\* Lines 185-187: after the startup loop.
AfterStartup(g, T) ==
    IF g.task_status = "running"
    THEN [g |-> Yield(g, "running", EmptyDict, "yield_running"), T |-> T]
    ELSE FinalEvent(g, T)

\* Lines 176-183: the poll of the startup phase, up to the sleep.
PollAccepted(g, T) ==
    [g |-> [g EXCEPT !.task_status = T[g.task_id].status, !.pc = "sleep_accepted"],
     T |-> T]

\* ForceFailed with line 172 left out: the status is set, the error is not.
ForceFailedNoError(task) == [task EXCEPT !.status = "failed"]

\* ForceFailed with the write stamped as the executor stamps its own.
ForceFailedStamps(task) ==
    [task EXCEPT !.status = "failed",
                 !.error = "Task execution timed out waiting to start",
                 !.last_update = "failed"]

\* The record after lines 171-172.
ForceFailed(task) ==
    [task EXCEPT !.status = "failed",
                 !.error = "Task execution timed out waiting to start"]

\* Lines 167-183: the startup timeout, then the poll.
CheckTimeout(g, T) ==
    IF g.since_timeout_start > startup_timeout
    THEN AfterStartup([g EXCEPT !.task_status = "failed"],
                      [T EXCEPT ![g.task_id] = ForceFailed(@)])
    ELSE PollAccepted(g, T)

\* WhileAccepted with the heartbeat of lines 163-165 ahead of the loop's
\* test of line 161.
WhileAcceptedHeartbeatFirst(g, T) ==
    IF g.since_heartbeat > heartbeat_interval
    THEN [g |-> Yield(g, "heartbeat", HeartbeatData, "yield_heartbeat_accepted"), T |-> T]
    ELSE IF g.task_status = "accepted" THEN CheckTimeout(g, T) ELSE AfterStartup(g, T)

\* Lines 161-165: the head of the startup loop and its heartbeat.
WhileAccepted(g, T) ==
    IF g.task_status = "accepted"
    THEN IF g.since_heartbeat > heartbeat_interval
         THEN [g |-> Yield(g, "heartbeat", HeartbeatData, "yield_heartbeat_accepted"), T |-> T]
         ELSE CheckTimeout(g, T)
    ELSE AfterStartup(g, T)

\* The generator s continues to its next suspension point, reaching (frame,
\* store) r.  A consumer takes at most MaxEvents events.
Continue(s, r) ==
    /\ _task_locks[subs[s].task_id] = "unlocked"
    /\ Len(r.g.events) <= MaxEvents
    /\ subs' = [subs EXCEPT ![s] = r.g]
    /\ _tasks' = r.T
    /\ UNCHANGED <<_task_locks, executors, returned, accepted_for, aux>>

\* Lines 141-157: the consumer asks a new generator for its first event.
Subscribe(s, task_id) ==
    /\ subs[s].pc = "idle"
    /\ \A r \in SubIds : r < s => subs[r].pc # "idle"
    /\ Coroutines < MaxCoroutines
    /\ IF task_id \notin DOMAIN _tasks \/ task_id \notin DOMAIN _task_locks
       THEN subs' = [subs EXCEPT ![s].pc = "KeyError", ![s].task_id = task_id]
       ELSE /\ _task_locks[task_id] = "unlocked"
            /\ subs' = [subs EXCEPT ![s] =
                   Yield([@ EXCEPT !.task_id = task_id,
                                   !.since_heartbeat = 0,
                                   !.request_id = _tasks[task_id].request_id,
                                   !.task_status = _tasks[task_id].status,
                                   !.initial_status = _tasks[task_id].status],
                         "accepted", EmptyDict, "yield_accepted")]
    /\ UNCHANGED <<_tasks, _task_locks, executors, returned, accepted_for, lock_holder, at_line>>

\* Lines 159-161: resumed after the accepted event.
ResumeAccepted(s) ==
    /\ subs[s].pc = "yield_accepted"
    /\ Continue(s, WhileAccepted([subs[s] EXCEPT !.since_timeout_start = 0], _tasks))

\* Line 165: resumed after a heartbeat of the startup phase.
ResumeHeartbeatAccepted(s) ==
    /\ subs[s].pc = "yield_heartbeat_accepted"
    /\ Continue(s, CheckTimeout([subs[s] EXCEPT !.since_heartbeat = 0], _tasks))

\* The executor of task_id has taken its first step.
ExecutorStarted(task_id) ==
    \A e \in DOMAIN executors :
        executors[e].task_id = task_id => executors[e].pc # "scheduled"

\* Line 183: asyncio.sleep(0.1) of the startup phase returns.  The sleep
\* gives control to the event loop, whose queue is first in, first out: the
\* executor, queued when the task was created, has run to its first
\* suspension point before the timer of the sleep wakes the generator.
WakeAccepted(s) ==
    /\ subs[s].pc = "sleep_accepted"
    /\ ExecutorStarted(subs[s].task_id)
    /\ Continue(s, WhileAccepted(subs[s], _tasks))

\* Lines 187-190: resumed after the running event.
ResumeRunning(s) ==
    /\ subs[s].pc = "yield_running"
    /\ Continue(s, WhileRunning(subs[s], _tasks))

\* Line 194: resumed after a heartbeat of the running phase.
ResumeHeartbeatRunning(s) ==
    /\ subs[s].pc = "yield_heartbeat_running"
    /\ Continue(s, PollRunning([subs[s] EXCEPT !.since_heartbeat = 0], _tasks))

\* Line 203: asyncio.sleep(0.1) of the running phase returns.
WakeRunning(s) ==
    /\ subs[s].pc = "sleep_running"
    /\ Continue(s, WhileRunning(subs[s], _tasks))

\* ResumeFinal with the generator cancelling the task's executor when its
\* stream ends.
ResumeFinalCancels(s) ==
    /\ subs[s].pc = "yield_final"
    /\ subs' = [subs EXCEPT ![s].pc = "done"]
    /\ executors' = [e \in DOMAIN executors |->
                        IF executors[e].task_id = subs[s].task_id /\ executors[e].pc # "done"
                        THEN [executors[e] EXCEPT !.pc = "cancelled"]
                        ELSE executors[e]]
    /\ UNCHANGED <<_tasks, _task_locks, returned, accepted_for, aux>>

\* ResumeFinal with the generator deleting the record and the lock of its
\* task when its stream ends.
ResumeFinalDeletes(s) ==
    /\ subs[s].pc = "yield_final"
    /\ subs' = [subs EXCEPT ![s].pc = "done"]
    /\ _tasks' = [t \in DOMAIN _tasks \ {subs[s].task_id} |-> _tasks[t]]
    /\ _task_locks' = [t \in DOMAIN _task_locks \ {subs[s].task_id} |-> _task_locks[t]]
    /\ UNCHANGED <<executors, returned, accepted_for, aux>>

\* Lines 215-217: resumed after the terminal event, the generator ends.
ResumeFinal(s) ==
    /\ subs[s].pc = "yield_final"
    /\ subs' = [subs EXCEPT ![s].pc = "done"]
    /\ UNCHANGED <<_tasks, _task_locks, executors, returned, accepted_for, aux>>

SubStep(s) ==
    \/ ResumeAccepted(s) \/ ResumeHeartbeatAccepted(s) \/ WakeAccepted(s)
    \/ ResumeRunning(s) \/ ResumeHeartbeatRunning(s) \/ WakeRunning(s)
    \/ ResumeFinal(s)

\* ------------------------------------------------------------ the endpoints
\* api/task_routes.py and the codec of core/rpc.py.  A JSON body is a record
\* of its members; Absent stands for a member the body does not have, json
\* tells whether the body is JSON at all, params whether it has the member
\* params.  A message built by an f-string is the tuple of its parts.
Absent == "Absent"

\* The names of the skills the agent exposes (the _a2a_skill of
\* agent_functions); a skill's function is named like the skill.
agent_functions == {"test_fn", "raise_msg"}

ValidRequest ==
    [json |-> TRUE, jsonrpc |-> "2.0", id |-> "request-0", method |-> "tasks/send",
     params |-> TRUE, agentSkill |-> "test_fn", input |-> "input-0"]

\* The bodies POSTed to /tasks/send.
Requests ==
    {ValidRequest,
     [ValidRequest EXCEPT !.id = "request-1", !.agentSkill = "raise_msg", !.input = "input-1"],
     [ValidRequest EXCEPT !.jsonrpc = Absent, !.id = "request-1"],
     [ValidRequest EXCEPT !.method = "invalid_method"],
     [ValidRequest EXCEPT !.method = "invalid_method", !.agentSkill = "nonexistent",
                          !.id = "request-1"],
     [ValidRequest EXCEPT !.agentSkill = "nonexistent"],
     [ValidRequest EXCEPT !.jsonrpc = "1.0"],
     [ValidRequest EXCEPT !.id = Absent],
     [ValidRequest EXCEPT !.method = Absent],
     [ValidRequest EXCEPT !.params = FALSE, !.agentSkill = Absent, !.input = Absent],
     [ValidRequest EXCEPT !.agentSkill = Absent],
     [ValidRequest EXCEPT !.input = Absent, !.id = "request-1"],
     [ValidRequest EXCEPT !.json = FALSE]}

\* The ids asked for at /tasks/{task_id}/events: those create_task can
\* return and one it never returns.
EventRequests == 0..MaxTasks

\* JSONRPCRequest.parse_obj(data) returns (card.py 59-69): jsonrpc is "2.0"
\* or left to its default, id, method and params are there, and params has
\* agentSkill and input.
parse_obj(data) ==
    /\ data.jsonrpc \in {"2.0", Absent}
    /\ data.id # Absent
    /\ data.method # Absent
    /\ data.params /\ data.agentSkill # Absent /\ data.input # Absent

\* data.get("id", "") if 'data' in locals() else ""
IdOf(req) == IF req.json /\ req.id # Absent THEN req.id ELSE ""

\* str(e) of what request.json() or parse_obj raises
StrOfError(req) == IF req.json THEN "ValidationError" ELSE "JSONDecodeError"

\* JSONResponse(content=response.dict(exclude_none=True)): status 200 unless
\* a status_code is given.
JSONResponse(content, status_code) == [status |-> status_code, content |-> content]

\* JSONRPCException(code, message): its code, message and data.
JSONRPCException(code, message) ==
    [code |-> code, message |-> message, data |-> JSONRPCErrorData(message)]

\* JSONRPCInvalidRequest raised with the code of JSONRPCMethodNotFound.
JSONRPCInvalidRequestAsMethod(message) == JSONRPCException(METHOD_NOT_FOUND, message)

JSONRPCInvalidRequest(message) == JSONRPCException(INVALID_REQUEST, message)

JSONRPCMethodNotFound(message) == JSONRPCException(METHOD_NOT_FOUND, message)

\* JSONRPCSkillNotFound with a message that does not name the skill.
JSONRPCSkillNotFoundUnnamed(skill_name) ==
    JSONRPCException(SKILL_NOT_FOUND, <<"Skill not found">>)

JSONRPCSkillNotFound(skill_name) ==
    JSONRPCException(SKILL_NOT_FOUND, <<"Skill '", skill_name, "' not found">>)

JSONRPCTaskNotFound(task_id) ==
    JSONRPCException(TASK_NOT_FOUND, <<"Task '", task_id, "' not found">>)

\* to_response with "response.dict()": the members that are None are kept.
to_responseKeepNone(e, request_id) ==
    JSONResponse([jsonrpc |-> "2.0", id |-> request_id, result |-> None,
                  error |-> [code |-> e.code, message |-> e.message, data |-> e.data]],
                 HTTP_200_OK)

\* JSONRPCException.to_response
to_response(e, request_id) ==
    JSONResponse([jsonrpc |-> "2.0", id |-> request_id,
                  error |-> [code |-> e.code, message |-> e.message, data |-> e.data]],
                 HTTP_200_OK)

\* rpc.create_success_response, for a result that is not None.
create_success_response(request_id, result) ==
    JSONResponse([jsonrpc |-> "2.0", id |-> request_id, result |-> result], HTTP_200_OK)

\* rpc.create_error_response, called with data (task_routes.py 72-77).
create_error_response(request_id, code, message, data) ==
    JSONResponse([jsonrpc |-> "2.0", id |-> request_id,
                  error |-> [code |-> code, message |-> message,
                             data |-> {<<"error", message>>, <<"details", data>>}]],
                 HTTP_200_OK)

\* create_task_accepted_response without "status_code=202".
create_task_accepted_responseDefaultStatus(request_id, task_id) ==
    JSONResponse([jsonrpc |-> "2.0", id |-> request_id,
                  result |-> [taskId |-> task_id, status |-> "accepted"]],
                 HTTP_200_OK)

\* rpc.create_task_accepted_response
create_task_accepted_response(request_id, task_id) ==
    JSONResponse([jsonrpc |-> "2.0", id |-> request_id,
                  result |-> [taskId |-> task_id, status |-> "accepted"]],
                 HTTP_202_ACCEPTED)

\* An exception no handler catches: the server answers 500 with a plain text.
Unhandled(e) ==
    [status |-> HTTP_500_INTERNAL_SERVER_ERROR,
     content |-> [text |-> "Internal Server Error"], raised |-> e]

\* What the store, the coroutines and the clock of the records look like to
\* a handler that does not create a task.
store == <<_tasks, _task_locks, executors, subs, returned, accepted_for>>

Exchange(endpoint, request, response) ==
    [endpoint |-> endpoint, request |-> request, response |-> response]

\* send_task with the task created as soon as the envelope is parsed, before
\* the method is checked and the skill is looked up.
send_taskCreateFirst(req) ==
    IF ~req.json \/ ~parse_obj(req)
    THEN /\ http' = Exchange("tasks/send", req,
                        create_error_response(IdOf(req), INTERNAL_ERROR, <<"Internal error">>,
                                              StrOfError(req)))
         /\ UNCHANGED <<store, lock_holder, at_line>>
    ELSE /\ create_task(req.agentSkill, req.input, req.id)
         /\ http' = Exchange("tasks/send", req,
                IF req.method # "tasks/send"
                THEN to_response(JSONRPCInvalidRequest(<<"Method must be 'tasks/send'">>), IdOf(req))
                ELSE IF req.agentSkill \notin agent_functions
                THEN to_response(JSONRPCSkillNotFound(req.agentSkill), IdOf(req))
                ELSE create_task_accepted_response(req.id, returned'[Len(returned')]))

\* task_routes.send_task, lines 40-77.
send_task(req) ==
    IF ~req.json \/ ~parse_obj(req)
    THEN /\ http' = Exchange("tasks/send", req,
                        create_error_response(IdOf(req), INTERNAL_ERROR, <<"Internal error">>,
                                              StrOfError(req)))
         /\ UNCHANGED <<store, lock_holder, at_line>>
    ELSE IF req.method # "tasks/send"
    THEN /\ http' = Exchange("tasks/send", req,
                        to_response(JSONRPCInvalidRequest(<<"Method must be 'tasks/send'">>),
                                    IdOf(req)))
         /\ UNCHANGED <<store, lock_holder, at_line>>
    ELSE IF req.agentSkill \notin agent_functions
    THEN /\ http' = Exchange("tasks/send", req,
                        to_response(JSONRPCSkillNotFound(req.agentSkill), IdOf(req)))
         /\ UNCHANGED <<store, lock_holder, at_line>>
    ELSE /\ create_task(req.agentSkill, req.input, req.id)
         /\ http' = Exchange("tasks/send", req,
                        create_task_accepted_response(req.id, returned'[Len(returned')]))

\* task_routes.task_events, lines 86-89.  JSONRPCTaskNotFound is raised
\* outside any try and the application registers no handler for it
\* (server.py 34-82).  For a known id the response starts the generator s.
task_events(s, task_id) ==
    IF ~task_exists(task_id)
    THEN /\ http' = Exchange("tasks/events", task_id, Unhandled(JSONRPCTaskNotFound(task_id)))
         /\ UNCHANGED <<store, lock_holder, at_line>>
    ELSE /\ Subscribe(s, task_id)
         /\ http' = Exchange("tasks/events", task_id,
                        [status |-> HTTP_200_OK, content |-> [stream |-> s]])

\* The bodies POSTed to /search: their id and method.
SearchRequests ==
    {[id |-> "request-0", method |-> "skills/search"],
     [id |-> "request-1", method |-> "tasks/send"]}

\* card_routes.search_jsonrpc, lines 55-90; the agents found are those of the one
\* card the server has.
search_jsonrpc(req) ==
    /\ http' = Exchange("search", req,
                   IF req.method # "skills/search"
                   THEN to_response(JSONRPCMethodNotFound(<<"Method not found">>), req.id)
                   ELSE create_success_response(req.id, [agents |-> <<"card">>]))
    /\ UNCHANGED <<store, lock_holder, at_line>>

\* ------------------------------------------------------------------ the clock
\* The lines at which a suspended generator will read last_heartbeat, and
\* timeout_start, again before it writes it.
ReadsHeartbeat == {"yield_accepted", "sleep_accepted", "yield_running", "sleep_running"}
ReadsTimeoutStart == {"yield_heartbeat_accepted", "sleep_accepted"}

\* The lines from which a generator can still reach a heartbeat.
BeforeHeartbeat == ReadsHeartbeat \cup {"yield_heartbeat_accepted", "yield_heartbeat_running"}

\* d seconds pass while the event loop runs something else, or while the
\* consumer of a generator holds an event: what the generators will read.
PassTime(d) ==
    /\ subs' = [s \in SubIds |->
                  [subs[s] EXCEPT
                     !.since_heartbeat =
                         IF subs[s].pc \in ReadsHeartbeat
                         THEN Elapsed(@, d, heartbeat_interval) ELSE @,
                     !.since_timeout_start =
                         IF subs[s].pc \in ReadsTimeoutStart
                         THEN Elapsed(@, d, startup_timeout) ELSE @,
                     !.since_event =
                         IF subs[s].pc \in BeforeHeartbeat
                         THEN Elapsed(@, d, heartbeat_interval) ELSE @]]
    /\ UNCHANGED <<_tasks, _task_locks, executors, returned, aux>>

\* Time passes; the program reads the clock in the generators only.
Tick(d) == PassTime(d) /\ UNCHANGED accepted_for

\* Time passes, and the age of the records still Accepted is followed too.
TickAccepted(d) ==
    /\ PassTime(d)
    /\ accepted_for' = [t \in DOMAIN accepted_for |->
                          IF _tasks[t].status = "accepted"
                          THEN Elapsed(accepted_for[t], d, startup_timeout)
                          ELSE accepted_for[t]]

\* The generators that have been started and have not ended.
Streaming == {s \in SubIds : subs[s].pc \notin {"idle", "KeyError", "done"}}

\* d seconds pass while the event loop runs a skill.  Line 85 (and the
\* wrapper of skills.py, line 59) calls a skill that is not a coroutine
\* function inside the event loop, which runs no other coroutine until the
\* skill returns: a generator asleep at line 183 or 203 wakes when the loop
\* is free again, however long its 0.1 s are over.  Every consumer has taken
\* the events yielded so far: no generator is waiting at a yield.
Blocked(d) ==
    /\ \E e \in DOMAIN executors : executors[e].pc = "awaiting"
    /\ \A s \in Streaming : subs[s].pc \in {"sleep_accepted", "sleep_running"}
    /\ Tick(d)

\* ------------------------------------------------------------ line by line
\* The same functions of lifecycle.py one lock block at a time: "async with
\* lock" is "await lock.acquire()", the one place where a coroutine that
\* takes a lock may have to let the others run.  This view lets the event
\* loop switch coroutines at every step below, which is at least what
\* asyncio allows, and it leaves out the clock and the events: the timeout of
\* line 168 may be found expired at any pass.
\* Its coroutines: one call of create_task at a time, the executor of each
\* task, one call of get_task at a time and one generator at a time.
Creator == <<"create_task", 0>>
Reader == <<"get_task", 0>>
Generator == <<"generate_task_events", 0>>
Executor(task_id) == <<"_execute_task", task_id>>
LockCoroutines == {Creator, Reader, Generator} \cup {Executor(t) : t \in TaskIds}

\* The calls of create_task of this view: a skill that returns, one that
\* raises an Exception and one that raises a BaseException.
LockCalls ==
    {<<"test_fn", "input-0", "request-0">>, <<"raise_msg", "input-0", "request-0">>,
     <<"raise_base", "input-0", "request-1">>}

\* A coroutine's frame: the line it executes next and its locals.  Line 0:
\* the coroutine is not running (not called yet, or it has returned).
NoFrame ==
    [line |-> 0, task_id |-> 0, fn |-> None, args |-> None,
     request_id |-> None, task_status |-> None]

Goto(c, frame) == at_line' = [at_line EXCEPT ![c] = frame]

\* The variables the line-by-line view does not follow.
not_followed == <<executors, subs, accepted_for, http>>

\* asyncio.Lock.acquire, entered by "async with lock": the coroutine goes on
\* only when the lock is not held, and then holds it.
acquire(c, task_id) ==
    /\ lock_holder[task_id] = {}
    /\ lock_holder' = [lock_holder EXCEPT ![task_id] = @ \cup {c}]

\* asyncio.Lock.release, at the end of the "async with" block.
release(c, task_id) ==
    lock_holder' = [lock_holder EXCEPT ![task_id] = @ \ {c}]

\* create_task, lines 31-38: the id is drawn, the lock created and stored,
\* and the block entered; nobody else has the new lock.
create_task_31(skill_fn, args, request_id) ==
    LET task_id == TaskKey(uuid4, request_id) IN
    /\ at_line[Creator].line = 0
    /\ Len(returned) < MaxTasks
    /\ _task_locks' = SetItem(_task_locks, task_id, "unlocked")
    /\ lock_holder' = SetItem(lock_holder, task_id, {Creator})
    /\ Goto(Creator, [NoFrame EXCEPT !.line = 39, !.task_id = task_id, !.fn = skill_fn,
                                     !.args = args, !.request_id = request_id])
    /\ UNCHANGED <<_tasks, returned, not_followed>>

\* create_task, lines 39-53: the record is stored and the block left, the
\* executor is handed to the event loop and the id returned.
create_task_39 ==
    LET f == at_line[Creator] IN
    /\ f.line = 39
    /\ _tasks' = SetItem(_tasks, f.task_id, NewTask(f.fn, f.args, f.request_id))
    /\ release(Creator, f.task_id)
    /\ at_line' = [at_line EXCEPT
                     ![Creator] = NoFrame,
                     ![Executor(f.task_id)] =
                         [NoFrame EXCEPT !.line = 65, !.task_id = f.task_id]]
    /\ returned' = Append(returned, f.task_id)
    /\ UNCHANGED <<_task_locks, not_followed>>

\* _execute_task, lines 65-74: the check, and "async with lock"
_execute_task_65(task_id) ==
    LET c == Executor(task_id) IN
    /\ at_line[c].line = 65
    /\ IF task_id \notin DOMAIN _tasks \/ task_id \notin DOMAIN _task_locks
       THEN Goto(c, NoFrame) /\ UNCHANGED lock_holder
       ELSE acquire(c, task_id) /\ Goto(c, [at_line[c] EXCEPT !.line = 75])
    /\ UNCHANGED <<_tasks, _task_locks, returned, not_followed>>

\* Lines 75-82 with the block of line 74 extended over the call of line 85.
_execute_task_75CallsInside(task_id) ==
    LET c == Executor(task_id) IN
    /\ at_line[c].line = 75
    /\ _tasks' = [_tasks EXCEPT ![task_id] = SetRunning(@)]
    /\ Goto(c, [at_line[c] EXCEPT !.line = 85, !.fn = _tasks[task_id]["function"],
                                  !.args = _tasks[task_id].args])
    /\ UNCHANGED <<_task_locks, returned, lock_holder, not_followed>>

\* _execute_task, lines 75-82: fn and args are read, the status is set to
\* running and the block left.
_execute_task_75(task_id) ==
    LET c == Executor(task_id) IN
    /\ at_line[c].line = 75
    /\ _tasks' = [_tasks EXCEPT ![task_id] = SetRunning(@)]
    /\ release(c, task_id)
    /\ Goto(c, [at_line[c] EXCEPT !.line = 85, !.fn = _tasks[task_id]["function"],
                                  !.args = _tasks[task_id].args])
    /\ UNCHANGED <<_task_locks, returned, not_followed>>

\* _execute_task, lines 85-88 and 94-96: the skill, called at line 85,
\* returns and the lock is taken for the result; or it raises an Exception
\* and the lock is taken for the error; or it raises a BaseException, which
\* ends the coroutine.
_execute_task_85(task_id) ==
    LET c == Executor(task_id)
        f == at_line[c] IN
    /\ f.line = 85
    /\ IF SkillRaisesBaseException(f.fn)
       THEN Goto(c, NoFrame) /\ UNCHANGED lock_holder
       ELSE /\ acquire(c, task_id)
            /\ Goto(c, [f EXCEPT !.line = IF SkillReturns(f.fn) THEN 89 ELSE 97])
    /\ UNCHANGED <<_tasks, _task_locks, returned, not_followed>>

\* _execute_task, lines 89-92
_execute_task_89(task_id) ==
    LET c == Executor(task_id)
        f == at_line[c] IN
    /\ f.line = 89
    /\ _tasks' = UpdateTask(_tasks, task_id,
                     StoreResult(_tasks[task_id], SkillResult(f.fn, f.args)))
    /\ release(c, task_id)
    /\ Goto(c, NoFrame)
    /\ UNCHANGED <<_task_locks, returned, not_followed>>

\* _execute_task, lines 97-100
_execute_task_97(task_id) ==
    LET c == Executor(task_id)
        f == at_line[c] IN
    /\ f.line = 97
    /\ _tasks' = UpdateTask(_tasks, task_id, StoreError(_tasks[task_id], ExcStr(f.fn)))
    /\ release(c, task_id)
    /\ Goto(c, NoFrame)
    /\ UNCHANGED <<_task_locks, returned, not_followed>>

\* get_task, lines 112-116: for an unknown id it returns None; for a known
\* one, "async with lock".
get_task_112(task_id) ==
    /\ at_line[Reader].line = 0
    /\ IF task_id \notin DOMAIN _tasks \/ task_id \notin DOMAIN _task_locks
       THEN Goto(Reader, NoFrame) /\ UNCHANGED lock_holder
       ELSE /\ acquire(Reader, task_id)
            /\ Goto(Reader, [NoFrame EXCEPT !.line = 117, !.task_id = task_id])
    /\ UNCHANGED <<_tasks, _task_locks, returned, not_followed>>

\* get_task, line 117: the record is read and returned, and the block left.
get_task_117 ==
    /\ at_line[Reader].line = 117
    /\ release(Reader, at_line[Reader].task_id)
    /\ Goto(Reader, NoFrame)
    /\ UNCHANGED <<_tasks, _task_locks, returned, not_followed>>

\* generate_task_events, lines 141-151: KeyError for an unknown id; for a
\* known one, "async with lock".
generate_task_events_141(task_id) ==
    /\ at_line[Generator].line = 0
    /\ IF task_id \notin DOMAIN _tasks \/ task_id \notin DOMAIN _task_locks
       THEN Goto(Generator, NoFrame) /\ UNCHANGED lock_holder
       ELSE /\ acquire(Generator, task_id)
            /\ Goto(Generator, [NoFrame EXCEPT !.line = 152, !.task_id = task_id])
    /\ UNCHANGED <<_tasks, _task_locks, returned, not_followed>>

\* "async with lock" of lines 177, 197 and 209: the block entered is the
\* line after.
generate_task_events_acquire ==
    LET f == at_line[Generator] IN
    /\ f.line \in {177, 197, 209}
    /\ acquire(Generator, f.task_id)
    /\ Goto(Generator, [f EXCEPT !.line = @ + 1])
    /\ UNCHANGED <<_tasks, _task_locks, returned, not_followed>>

\* The "async with lock" the generator reaches next when it has read
\* task_status: in the startup loop (161-168) the timeout branch or the
\* poll, as the 30 seconds are found used up or not; from line 186 on the
\* poll of the running loop, or the final block.
NextBlock(task_status) ==
    CASE task_status = "accepted" -> {169, 177}
      [] task_status = "running" -> {197}
      [] OTHER -> {209}

\* Lines 152-168: the request id and the status are read, the block left
\* and the accepted event yielded.
generate_task_events_152 ==
    LET f == at_line[Generator] IN
    /\ f.line = 152
    /\ release(Generator, f.task_id)
    /\ \E next \in NextBlock(_tasks[f.task_id].status) :
           Goto(Generator, [f EXCEPT !.line = next,
                                     !.request_id = _tasks[f.task_id].request_id,
                                     !.task_status = _tasks[f.task_id].status])
    /\ UNCHANGED <<_tasks, _task_locks, returned, not_followed>>

\* The timeout branch with the record written before the lock is taken.
generate_task_events_169Unlocked ==
    LET f == at_line[Generator] IN
    /\ f.line = 169
    /\ _tasks' = UpdateTask(_tasks, f.task_id, ForceFailed(_tasks[f.task_id]))
    /\ Goto(Generator, [f EXCEPT !.line = 209, !.task_status = "failed"])
    /\ UNCHANGED <<_task_locks, returned, lock_holder, not_followed>>

\* Line 169: "async with lock" of the timeout branch
generate_task_events_169 ==
    LET f == at_line[Generator] IN
    /\ f.line = 169
    /\ acquire(Generator, f.task_id)
    /\ Goto(Generator, [f EXCEPT !.line = 170])
    /\ UNCHANGED <<_tasks, _task_locks, returned, not_followed>>

\* Lines 170-174: the record is forced to failed, the block left and the
\* loop broken out of.
generate_task_events_170 ==
    LET f == at_line[Generator] IN
    /\ f.line = 170
    /\ _tasks' = UpdateTask(_tasks, f.task_id, ForceFailed(_tasks[f.task_id]))
    /\ release(Generator, f.task_id)
    /\ Goto(Generator, [f EXCEPT !.line = 209, !.task_status = "failed"])
    /\ UNCHANGED <<_task_locks, returned, not_followed>>

\* generate_task_events_178 with the sleep of line 183 inside the block of
\* line 177: the generator sleeps holding the lock.
generate_task_events_178SleepsInside ==
    LET f == at_line[Generator] IN
    /\ f.line = 178
    /\ \E next \in NextBlock(_tasks[f.task_id].status) :
           Goto(Generator, [f EXCEPT !.line = next,
                                     !.task_status = _tasks[f.task_id].status])
    /\ UNCHANGED <<_tasks, _task_locks, returned, lock_holder, not_followed>>

\* Lines 178-183 and 161-168, 186: the status is read, the block left and
\* the sleep taken.
generate_task_events_178 ==
    LET f == at_line[Generator] IN
    /\ f.line = 178
    /\ release(Generator, f.task_id)
    /\ \E next \in NextBlock(_tasks[f.task_id].status) :
           Goto(Generator, [f EXCEPT !.line = next,
                                     !.task_status = _tasks[f.task_id].status])
    /\ UNCHANGED <<_tasks, _task_locks, returned, not_followed>>

\* Lines 198-203 and 190-194: the status is read, the block left and the
\* sleep taken.
generate_task_events_198 ==
    LET f == at_line[Generator] IN
    /\ f.line = 198
    /\ release(Generator, f.task_id)
    /\ Goto(Generator, [f EXCEPT !.line = IF _tasks[f.task_id].status = "running"
                                          THEN 197 ELSE 209,
                                 !.task_status = _tasks[f.task_id].status])
    /\ UNCHANGED <<_tasks, _task_locks, returned, not_followed>>

\* Lines 210-217: result and error are read, the block left and the final
\* event yielded.
generate_task_events_210 ==
    LET f == at_line[Generator] IN
    /\ f.line = 210
    /\ release(Generator, f.task_id)
    /\ Goto(Generator, NoFrame)
    /\ UNCHANGED <<_tasks, _task_locks, returned, not_followed>>

\* The lines of each function that read or write a field of a record, named
\* by the first line of the step that contains them.
RecordLines ==
    [c \in LockCoroutines |->
        CASE c = Creator -> {39}
          [] c = Reader -> {117}
          [] c = Generator -> {152, 170, 178, 198, 210}
          [] OTHER -> {75, 89, 97}]

\* ------------------------------------------------------------ specification
\* Before any request, and before any coroutine of the line-by-line view runs.
NoExchange == [endpoint |-> None]
IdleLines == [c \in LockCoroutines |-> NoFrame]
NoLocks == <<>>

Init ==
    /\ _tasks = <<>>
    /\ _task_locks = <<>>
    /\ executors = <<>>
    /\ subs = [s \in SubIds |-> IdleGenerator]
    /\ returned = <<>>
    /\ accepted_for = <<>>
    /\ http = NoExchange
    /\ lock_holder = NoLocks
    /\ at_line = IdleLines

Next ==
    \/ \E c \in Calls : create_task(c[1], c[2], c[3]) /\ UNCHANGED http
    \/ \E e \in DOMAIN executors : ExecStart(e)
    \/ \E e \in DOMAIN executors : ExecReturn(e)
    \/ \E e \in DOMAIN executors : ExecRaise(e)
    \/ \E e \in DOMAIN executors : ExecEscape(e)
    \/ \E s \in SubIds, task_id \in TaskIds : Subscribe(s, task_id) /\ UNCHANGED http
    \/ \E s \in SubIds : ResumeAccepted(s)
    \/ \E s \in SubIds : ResumeHeartbeatAccepted(s)
    \/ \E s \in SubIds : WakeAccepted(s)
    \/ \E s \in SubIds : ResumeRunning(s)
    \/ \E s \in SubIds : ResumeHeartbeatRunning(s)
    \/ \E s \in SubIds : WakeRunning(s)
    \/ \E s \in SubIds : ResumeFinal(s)
    \/ \E d \in TickSteps : Tick(d)

Spec == Init /\ [][Next]_vars

\* The same program with the age of the Accepted records followed.
NextStartup ==
    \/ \E c \in Calls : create_task(c[1], c[2], c[3]) /\ UNCHANGED http
    \/ \E e \in DOMAIN executors : ExecStart(e)
    \/ \E e \in DOMAIN executors : ExecReturn(e)
    \/ \E e \in DOMAIN executors : ExecRaise(e)
    \/ \E e \in DOMAIN executors : ExecEscape(e)
    \/ \E s \in SubIds, task_id \in TaskIds : Subscribe(s, task_id) /\ UNCHANGED http
    \/ \E s \in SubIds : ResumeAccepted(s)
    \/ \E s \in SubIds : ResumeHeartbeatAccepted(s)
    \/ \E s \in SubIds : WakeAccepted(s)
    \/ \E s \in SubIds : ResumeRunning(s)
    \/ \E s \in SubIds : ResumeHeartbeatRunning(s)
    \/ \E s \in SubIds : WakeRunning(s)
    \/ \E s \in SubIds : ResumeFinal(s)
    \/ \E d \in TickSteps : TickAccepted(d)

SpecStartup == Init /\ [][NextStartup]_vars

\* The program behind its endpoints: tasks are created by POST /tasks/send
\* and generators started by GET /tasks/{task_id}/events, and every consumer
\* takes its events within the heartbeat interval.
NextApi ==
    \/ \E req \in Requests : send_task(req)
    \/ \E s \in SubIds, task_id \in EventRequests : task_events(s, task_id)
    \/ \E req \in SearchRequests : search_jsonrpc(req)
    \/ \E e \in DOMAIN executors : ExecStart(e)
    \/ \E e \in DOMAIN executors : ExecReturn(e)
    \/ \E e \in DOMAIN executors : ExecRaise(e)
    \/ \E s \in SubIds : ResumeAccepted(s)
    \/ \E s \in SubIds : WakeAccepted(s)
    \/ \E s \in SubIds : ResumeRunning(s)
    \/ \E s \in SubIds : WakeRunning(s)
    \/ \E s \in SubIds : ResumeFinal(s)

SpecApi == Init /\ [][NextApi]_vars

\* The program line by line (see "line by line" above).
NextLock ==
    \/ \E c \in LockCalls : create_task_31(c[1], c[2], c[3])
    \/ create_task_39
    \/ \E task_id \in TaskIds : _execute_task_65(task_id)
    \/ \E task_id \in TaskIds : _execute_task_75(task_id)
    \/ \E task_id \in TaskIds : _execute_task_85(task_id)
    \/ \E task_id \in TaskIds : _execute_task_89(task_id)
    \/ \E task_id \in TaskIds : _execute_task_97(task_id)
    \/ \E task_id \in TaskIds : get_task_112(task_id)
    \/ get_task_117
    \/ \E task_id \in TaskIds : generate_task_events_141(task_id)
    \/ generate_task_events_acquire
    \/ generate_task_events_152
    \/ generate_task_events_169
    \/ generate_task_events_170
    \/ generate_task_events_178
    \/ generate_task_events_198
    \/ generate_task_events_210

SpecLock == Init /\ [][NextLock]_vars

\* The scheduling of the line-by-line view.  The event loop runs every
\* coroutine that is ready, so a coroutine inside a lock block leaves it
\* (weak fairness).  asyncio.Lock wakes its waiters first in, first out, so
\* a coroutine waiting for a lock that is free again and again gets it
\* (strong fairness); the skill called at line 85 is taken to end.  Calls of
\* create_task, get_task and generate_task_events are the callers' choice.
LockFairness ==
    /\ WF_vars(create_task_39)
    /\ \A task_id \in TaskIds :
           /\ SF_vars(_execute_task_65(task_id))
           /\ WF_vars(_execute_task_75(task_id))
           /\ SF_vars(_execute_task_85(task_id))
           /\ WF_vars(_execute_task_89(task_id))
           /\ WF_vars(_execute_task_97(task_id))
    /\ WF_vars(get_task_117)
    /\ SF_vars(generate_task_events_acquire)
    /\ SF_vars(generate_task_events_169)
    /\ WF_vars(generate_task_events_152)
    /\ WF_vars(generate_task_events_170)
    /\ WF_vars(generate_task_events_178)
    /\ WF_vars(generate_task_events_198)
    /\ WF_vars(generate_task_events_210)

SpecLockFair == SpecLock /\ LockFairness

\* The program with consumers that take every event as soon as it is
\* yielded: time passes only while the generators sleep and a skill runs.
NextConsumed ==
    \/ \E c \in Calls : create_task(c[1], c[2], c[3]) /\ UNCHANGED http
    \/ \E e \in DOMAIN executors : ExecStart(e)
    \/ \E e \in DOMAIN executors : ExecReturn(e)
    \/ \E e \in DOMAIN executors : ExecRaise(e)
    \/ \E e \in DOMAIN executors : ExecEscape(e)
    \/ \E s \in SubIds, task_id \in TaskIds : Subscribe(s, task_id) /\ UNCHANGED http
    \/ \E s \in SubIds : ResumeAccepted(s)
    \/ \E s \in SubIds : ResumeHeartbeatAccepted(s)
    \/ \E s \in SubIds : WakeAccepted(s)
    \/ \E s \in SubIds : ResumeRunning(s)
    \/ \E s \in SubIds : ResumeHeartbeatRunning(s)
    \/ \E s \in SubIds : WakeRunning(s)
    \/ \E s \in SubIds : ResumeFinal(s)
    \/ \E d \in TickSteps : Blocked(d)

SpecConsumed == Init /\ [][NextConsumed]_vars

\* ===================================================================== claims
Last(seq) == seq[Len(seq)]
Range(seq) == {seq[i] : i \in DOMAIN seq}
EventTypes(g) == [i \in DOMAIN g.events |-> g.events[i].event]
ExecutorsOf(task_id) == {e \in DOMAIN executors : executors[e].task_id = task_id}
Terminal == {"completed", "failed"}

\* The automaton of  accepted, heartbeat*, (running, heartbeat*)?, (completed|failed).
StepPattern(q, event_type) ==
    CASE q = "start" /\ event_type = "accepted" -> "startup"
      [] q = "startup" /\ event_type = "heartbeat" -> "startup"
      [] q = "startup" /\ event_type = "running" -> "running"
      [] q = "running" /\ event_type = "heartbeat" -> "running"
      [] q \in {"startup", "running"} /\ event_type \in Terminal -> "closed"
      [] OTHER -> "reject"

RECURSIVE RunPattern(_)
RunPattern(types) ==
    IF types = <<>> THEN "start"
    ELSE StepPattern(RunPattern(SubSeq(types, 1, Len(types) - 1)), Last(types))

\* C1: the event types a generator has yielded always form a prefix of
\* accepted, heartbeat*, (running, heartbeat*)?, (completed|failed); a started
\* generator has yielded accepted first; and the stream has its terminal event,
\* exactly one and as its last event, exactly when the generator is at or past
\* its final yield.
C1_EventPattern ==
    \A s \in SubIds :
        LET q == RunPattern(EventTypes(subs[s])) IN
        /\ q # "reject"
        /\ subs[s].pc \notin {"idle", "KeyError"} => q # "start"
        /\ subs[s].pc \in {"yield_final", "done"} <=> q = "closed"

\* A finished stream that went through every part of the pattern.
C1_Witness ==
    \E s \in SubIds :
        /\ subs[s].pc = "done"
        /\ EventTypes(subs[s]) = <<"accepted", "heartbeat", "running", "heartbeat", "completed">>

AllowedTransitions ==
    {<<"accepted", "running">>, <<"running", "completed">>,
     <<"running", "failed">>, <<"accepted", "failed">>}

\* C2 (as claimed): every change of a record's status is Accepted->Running,
\* Running->Completed, Running->Failed or Accepted->Failed (the startup
\* timeout); Completed and Failed never change again.
C2_MonotonicStatus ==
    [][\A t \in DOMAIN _tasks :
          _tasks'[t].status # _tasks[t].status
              => <<_tasks[t].status, _tasks'[t].status>> \in AllowedTransitions]_vars

\* C3 (as claimed): the step in which the executor's skill returns V leaves
\* the record Completed with result V and error unset.
C3_ReturnCompletes ==
    [][\A e \in DOMAIN executors :
          (executors[e].pc = "awaiting" /\ executors'[e].pc = "done"
               /\ SkillReturns(executors[e].fn))
              => LET task == _tasks'[executors[e].task_id] IN
                 /\ task.status = "completed"
                 /\ task.result = SkillResult(executors[e].fn, executors[e].args)
                 /\ task.error = None]_vars

\* C4 (as claimed): an executor whose skill raises ends normally, and leaves
\* the record Failed with a non-empty error and no result.
C4_RaiseFails ==
    \A e \in DOMAIN executors :
        /\ executors[e].pc # "escaped"
        /\ (executors[e].pc = "done" /\ ~SkillReturns(executors[e].fn))
               => LET task == _tasks[executors[e].task_id] IN
                  /\ task.status = "failed"
                  /\ task.error \notin {None, ""}
                  /\ task.result = None

\* C5: every task id has exactly one executor, which calls the skill at most
\* once, and every executor belongs to an id create_task returned.
C5_ExecutedOnce ==
    /\ \A t \in DOMAIN _tasks :
           /\ Cardinality(ExecutorsOf(t)) = 1
           /\ \A e \in ExecutorsOf(t) : executors[e].calls <= 1
    /\ \A e \in DOMAIN executors : executors[e].task_id \in Range(returned)
    /\ Len(executors) = Len(returned)

\* A task whose skill has been called, after a generator's timeout branch and
\* its later steps have run on it.
C5_Witness ==
    \E s \in SubIds, e \in DOMAIN executors :
        /\ subs[s].pc = "done"
        /\ subs[s].task_id = executors[e].task_id
        /\ Last(EventTypes(subs[s])) = "failed"
        /\ _tasks[subs[s].task_id].error = "Task execution timed out waiting to start"
        /\ executors[e].pc = "done"
        /\ executors[e].calls = 1

\* C6 (as claimed): result and error are never both set, and each is written
\* at most once, by the step that makes the status terminal.
C6_ResultErrorOnce ==
    [][\A t \in DOMAIN _tasks :
          LET old == _tasks[t]
              new == _tasks'[t] IN
          /\ ~(new.result # None /\ new.error # None)
          /\ new.result # old.result
                 => old.result = None /\ old.status \notin Terminal /\ new.status \in Terminal
          /\ new.error # old.error
                 => old.error = None /\ old.status \notin Terminal /\ new.status \in Terminal]_vars

\* C7 (as claimed): a record has a result iff it is Completed and an error iff
\* it is Failed.
C7_ResultIffCompleted ==
    \A t \in DOMAIN _tasks :
        /\ _tasks[t].result # None <=> _tasks[t].status = "completed"
        /\ _tasks[t].error # None <=> _tasks[t].status = "failed"

\* C8: in the state create_task returns in, the record of the returned id
\* exists with status Accepted and its executor has not run: it is scheduled
\* and has not called the skill.
C8_ReturnsBeforeExecution ==
    [][Len(returned') > Len(returned)
          => LET id == Last(returned') IN
             /\ id \in DOMAIN _tasks'
             /\ _tasks'[id].status = "accepted"
             /\ \A e \in DOMAIN executors' :
                    executors'[e].task_id = id
                        => executors'[e].pc = "scheduled" /\ executors'[e].calls = 0]_vars

\* create_task has returned a second id while the first task is still being
\* executed.
C8_Witness ==
    /\ Len(returned) = 2
    /\ _tasks[returned[2]].status = "accepted"
    /\ \E e \in ExecutorsOf(returned[2]) : executors[e].pc = "scheduled"
    /\ \E e \in ExecutorsOf(returned[1]) : executors[e].pc = "awaiting"

\* C9: the id create_task returns was not returned before and had neither a
\* record nor a lock, and the call leaves every existing record and lock as
\* it was.
C9_FreshId ==
    [][Len(returned') > Len(returned)
          => LET id == Last(returned') IN
             /\ id \notin Range(returned)
             /\ id \notin DOMAIN _tasks
             /\ id \notin DOMAIN _task_locks
             /\ \A t \in DOMAIN _tasks : _tasks'[t] = _tasks[t]
             /\ \A t \in DOMAIN _task_locks : _task_locks'[t] = _task_locks[t]]_vars

\* Two tasks created with the same request id, the first one already changed.
C9_Witness ==
    /\ Len(returned) = 2
    /\ returned[1] # returned[2]
    /\ _tasks[returned[1]].request_id = _tasks[returned[2]].request_id
    /\ _tasks[returned[1]].status = "completed"
    /\ _tasks[returned[2]].status = "accepted"

WithoutHeartbeats(types) == SelectSeq(types, LAMBDA x : x # "heartbeat")
TimeoutMessage == "Task execution timed out waiting to start"

\* C11 (as claimed): a generator that was started while the record was still
\* Accepted (right after create_task, before the executor's first step), for
\* a task whose skill has returned, ends its stream having yielded, heartbeats
\* aside, accepted, running and completed, in that order.
C11_ThreeEvents ==
    \A s \in SubIds :
        (/\ subs[s].pc \in {"yield_final", "done"}
         /\ subs[s].initial_status = "accepted"
         /\ \E e \in ExecutorsOf(subs[s].task_id) :
                executors[e].pc = "done" /\ SkillReturns(executors[e].fn))
            => WithoutHeartbeats(EventTypes(subs[s])) = <<"accepted", "running", "completed">>

\* The generator s is suspended where its next step goes to the timeout check
\* of line 168 and finds the startup timeout passed.
AtTimeout(s) ==
    /\ \/ subs[s].pc = "yield_heartbeat_accepted"
       \/ /\ subs[s].pc = "sleep_accepted"
          /\ subs[s].task_status = "accepted"
          /\ subs[s].since_heartbeat <= heartbeat_interval
    /\ subs[s].since_timeout_start > startup_timeout

\* C12: the step in which a generator finds its startup timeout passed while
\* the record is still Accepted leaves the record Failed with the error "Task
\* execution timed out waiting to start", and leaves the generator at its
\* final yield with a failed event as its last event and no running event in
\* its stream.
C12_StartupTimeout ==
    [][\A s \in SubIds :
          (/\ AtTimeout(s)
           /\ _tasks[subs[s].task_id].status = "accepted"
           /\ ResumeHeartbeatAccepted(s) \/ WakeAccepted(s))
              => LET t == subs[s].task_id IN
                 /\ _tasks'[t].status = "failed"
                 /\ _tasks'[t].error = TimeoutMessage
                 /\ subs'[s].pc = "yield_final"
                 /\ Last(EventTypes(subs'[s])) = "failed"
                 /\ "running" \notin Range(EventTypes(subs'[s]))]_vars

\* A stream ended by the startup timeout of a task whose executor never ran.
C12_Witness ==
    \E s \in SubIds :
        /\ subs[s].pc = "done"
        /\ EventTypes(subs[s]) = <<"accepted", "heartbeat", "failed">>
        /\ _tasks[subs[s].task_id].status = "failed"
        /\ _tasks[subs[s].task_id].error = TimeoutMessage
        /\ \A e \in ExecutorsOf(subs[s].task_id) : executors[e].pc = "scheduled"

\* C13 (as claimed): the step in which a generator finds its startup timeout
\* passed while the record is no longer Accepted writes nothing to the record.
C13_TimeoutWritesOnce ==
    [][\A s \in SubIds :
          (/\ AtTimeout(s)
           /\ _tasks[subs[s].task_id].status # "accepted"
           /\ ResumeHeartbeatAccepted(s) \/ WakeAccepted(s))
              => _tasks'[subs[s].task_id] = _tasks[subs[s].task_id]]_vars

\* C14: the executor does not depend on the subscribers.  Whatever the
\* generators have done or not done, a scheduled executor can take its first
\* step and an executor awaiting its skill can take the step in which the
\* skill finishes; no step that changes a generator, and no passing of time,
\* changes an executor; and the step in which the skill returns or raises an
\* Exception leaves the record Completed or Failed.
C14_ExecutorUnaffected ==
    /\ [](\A e \in DOMAIN executors :
             /\ executors[e].pc = "scheduled" => ENABLED ExecStart(e)
             /\ executors[e].pc = "awaiting"
                    => ENABLED (ExecReturn(e) \/ ExecRaise(e) \/ ExecEscape(e)))
    /\ [][/\ subs' # subs => executors' = executors
          /\ \A e \in DOMAIN executors :
                 (executors[e].pc = "awaiting" /\ executors'[e].pc = "done")
                     => _tasks'[executors[e].task_id].status \in Terminal]_vars

\* A task brought to Completed while its only subscriber never took a second
\* event.
C14_Witness ==
    \E s \in SubIds :
        /\ subs[s].pc = "yield_accepted"
        /\ subs[s].initial_status = "accepted"
        /\ _tasks[subs[s].task_id].status = "completed"
        /\ \A e \in ExecutorsOf(subs[s].task_id) :
               executors[e].pc = "done" /\ executors[e].calls = 1

\* The ids create_task has not returned, among them one it never returns.
UnknownIds == (0..MaxTasks) \ Range(returned)

\* C15: in every state, get_task of an id create_task has not returned gives
\* None and task_exists of it gives False.  (get_task and task_exists write
\* nothing: they are evaluated in a state and are not steps.)
C15_UnknownId ==
    \A task_id \in UnknownIds :
        /\ get_task(task_id) = None
        /\ task_exists(task_id) = FALSE

\* One id known and its task finished, the other ids unknown.
C15_Witness ==
    /\ Len(returned) = 1
    /\ task_exists(returned[1])
    /\ _tasks[returned[1]].status = "completed"
    /\ get_task(2) = None
    /\ ~task_exists(2)

\* The events of type event_type the generator s has yielded.
EventsOf(s, event_type) ==
    {subs[s].events[i] : i \in {j \in DOMAIN subs[s].events : subs[s].events[j].event = event_type}}

\* C16 (as claimed): every completed event a generator has yielded is a
\* result envelope whose result has a member data, and that member is the
\* value the task's skill returned, whatever the value.
C16_CompletedCarriesResult ==
    \A s \in SubIds : \A ev \in EventsOf(s, "completed") :
        LET task == _tasks[subs[s].task_id] IN
        /\ "result" \in DOMAIN ev.data
        /\ "data" \in DOMAIN ev.data.result
        /\ ev.data.result.data = SkillResult(task["function"], task.args)

\* C17: every failed event a generator has yielded is an error envelope with
\* code -32000 and no result member, and in the step that yields it the data
\* of its error is the error message the record holds, which is set.
C17_FailedEnvelope ==
    /\ [](\A s \in SubIds : \A ev \in EventsOf(s, "failed") :
             /\ DOMAIN ev.data = {"jsonrpc", "id", "error"}
             /\ ev.data.error.code = -32000
             /\ \E msg \in {"boom", "", TimeoutMessage} :
                    ev.data.error.data = {<<"error", msg>>})
    /\ [][\A s \in SubIds :
             (Len(subs'[s].events) > Len(subs[s].events)
                  /\ Last(subs'[s].events).event = "failed")
                 => LET error == _tasks'[subs'[s].task_id].error IN
                    /\ error # None
                    /\ Last(subs'[s].events).data.error.data = {<<"error", error>>}]_vars

\* A finished stream whose failed event carries the message of the exception
\* the skill raised.
C17_Witness ==
    \E s \in SubIds :
        /\ subs[s].pc = "done"
        /\ Last(subs[s].events).event = "failed"
        /\ Last(subs[s].events).data.error.data = {<<"error", "boom">>}
        /\ _tasks[subs[s].task_id].error = "boom"

\* C18 (as claimed): a step in which a generator yields a heartbeat starts
\* more than heartbeat_interval seconds after the generator's last yield, of
\* whatever event type.
C18_HeartbeatSpacing ==
    [][\A s \in SubIds :
          (Len(subs'[s].events) > Len(subs[s].events)
               /\ Last(subs'[s].events).event = "heartbeat")
              => subs[s].since_event > heartbeat_interval]_vars

\* C19 (as claimed): every heartbeat event a generator has yielded carries
\* the payload {"timestamp": time.time()} it was yielded with, as the data of
\* its result.
C19_HeartbeatTimestamp ==
    \A s \in SubIds : \A ev \in EventsOf(s, "heartbeat") :
        /\ "data" \in DOMAIN ev.data.result
        /\ ev.data.result.data = HeartbeatData

\* C20: the id of every event a generator has yielded is the request id the
\* task was created with, and an accepted event's result has the member
\* status and no other.
C20_RequestIdEchoed ==
    \A s \in SubIds : \A i \in DOMAIN subs[s].events :
        LET ev == subs[s].events[i] IN
        /\ ev.data.id = _tasks[subs[s].task_id].request_id
        /\ ev.data.id \in RequestIds
        /\ ev.event = "accepted" => ev.data.result = [status |-> "accepted"]

\* A finished stream with events of four types, all with the id of their
\* task, created with the request id request-1.
C20_Witness ==
    \E s \in SubIds :
        /\ subs[s].pc = "done"
        /\ _tasks[subs[s].task_id].request_id = "request-1"
        /\ EventTypes(subs[s]) = <<"accepted", "running", "heartbeat", "failed">>
        /\ \A i \in DOMAIN subs[s].events : subs[s].events[i].data.id = "request-1"

\* C28 (as claimed): no record is in status Accepted more than startup_timeout
\* seconds after it was created.
C28_AcceptedBounded ==
    \A t \in DOMAIN _tasks :
        _tasks[t].status = "accepted" => accepted_for[t] <= startup_timeout

\* The exchange of the step is a POST /tasks/send of req.
Sent(req) == send_task(req)

\* The response is an error envelope.
IsError(response) == "error" \in DOMAIN response.content

\* C21: a step that answers a tasks/send request with an error envelope
\* leaves the records, the locks and the executors as they were.
C21_RejectedCreatesNothing ==
    [][\A req \in Requests :
          (Sent(req) /\ IsError(http'.response))
              => /\ _tasks' = _tasks
                 /\ _task_locks' = _task_locks
                 /\ executors' = executors
                 /\ returned' = returned]_vars

\* After a task was created and started, a request naming an unknown skill
\* has been rejected.
C21_Witness ==
    /\ http.endpoint = "tasks/send"
    /\ http.request.agentSkill = "nonexistent"
    /\ http.request.method = "tasks/send"
    /\ IsError(http.response)
    /\ Len(returned) = 1
    /\ _tasks[1].status = "running"

\* The request is one send_task accepts.
Accepted(req) ==
    /\ req.json /\ parse_obj(req)
    /\ req.method = "tasks/send"
    /\ req.agentSkill \in agent_functions

\* C22: a step that handles a valid tasks/send request naming a skill of the
\* agent creates exactly one record, with an id that had none, and answers
\* 202 with the envelope {jsonrpc, id: the request's id, result: {taskId: the
\* new id, status: "accepted"}}; and an id that has a record keeps having one.
C22_AcceptedResponse ==
    [][/\ \A req \in Requests :
             (Sent(req) /\ Accepted(req))
                 => LET task_id == http'.response.content.result.taskId IN
                    /\ http'.response.status = 202
                    /\ http'.response.content =
                           [jsonrpc |-> "2.0", id |-> req.id,
                            result |-> [taskId |-> task_id, status |-> "accepted"]]
                    /\ task_id \notin DOMAIN _tasks
                    /\ DOMAIN _tasks' = DOMAIN _tasks \cup {task_id}
                    /\ Len(executors') = Len(executors) + 1
                    /\ _tasks'[task_id].request_id = req.id
                    /\ _tasks'[task_id]["function"] = req.agentSkill
          /\ \A t \in DOMAIN _tasks : t \in DOMAIN _tasks']_vars

\* The task a request created has finished and the answer to the request
\* names it.
C22_Witness ==
    /\ http.endpoint = "tasks/send"
    /\ http.response.status = 202
    /\ http.response.content.result.taskId = 1
    /\ http.response.content.id = "request-1"
    /\ task_exists(1)
    /\ _tasks[1].status = "failed"

\* C23: the answer to a tasks/send request whose envelope is well formed and
\* whose method is not "tasks/send" is an error envelope with code -32600 and
\* the id of the request.
C23_WrongMethod ==
    (/\ http.endpoint = "tasks/send"
     /\ http.request.json /\ parse_obj(http.request)
     /\ http.request.method # "tasks/send")
        => /\ IsError(http.response)
           /\ http.response.content.error.code = -32600
           /\ http.response.content.id = http.request.id

\* A request with a wrong method and an unknown skill has been answered.
C23_Witness ==
    /\ http.endpoint = "tasks/send"
    /\ http.request.method = "invalid_method"
    /\ http.request.agentSkill = "nonexistent"
    /\ http.response.content.id = "request-1"

\* C24: the answer to a tasks/send request whose envelope is well formed,
\* whose method is "tasks/send" and whose skill the agent does not expose is
\* an error envelope with code -32002, a message that contains the name of
\* the skill, and the id of the request.
C24_UnknownSkill ==
    (/\ http.endpoint = "tasks/send"
     /\ http.request.json /\ parse_obj(http.request)
     /\ http.request.method = "tasks/send"
     /\ http.request.agentSkill \notin agent_functions)
        => /\ IsError(http.response)
           /\ http.response.content.error.code = -32002
           /\ http.request.agentSkill \in Range(http.response.content.error.message)
           /\ http.response.content.id = http.request.id

\* A request naming an unknown skill has been answered while a task exists.
C24_Witness ==
    /\ http.endpoint = "tasks/send"
    /\ http.request.agentSkill = "nonexistent"
    /\ http.request.method = "tasks/send"
    /\ http.response.content.error.message = <<"Skill '", "nonexistent", "' not found">>
    /\ Len(returned) = 2

\* C25 (as claimed): the answer to a tasks/send request whose body is not a
\* well-formed envelope (a member missing, or a version other than "2.0") is
\* an error envelope with code -32600.
C25_Malformed ==
    (/\ http.endpoint = "tasks/send"
     /\ ~(http.request.json /\ parse_obj(http.request)))
        => /\ IsError(http.response)
           /\ http.response.content.error.code = -32600

\* C26 (as claimed): the answer to a request for the events of an id that
\* has no record is an error envelope with code -32001, and no generator is
\* started for it.
C26_UnknownTask ==
    (/\ http.endpoint = "tasks/events"
     /\ "stream" \notin DOMAIN http.response.content)
        => /\ IsError(http.response)
           /\ http.response.content.error.code = -32001

\* The last response is an envelope of the codec: there has been a request,
\* and the answer is neither the server's own to an unhandled exception nor
\* the stream of events.
HasEnvelope ==
    /\ http.endpoint # None
    /\ http.response.status # 500
    /\ "stream" \notin DOMAIN http.response.content

ResultXorError(envelope) == Cardinality(DOMAIN envelope \cap {"result", "error"}) = 1

\* C27: every envelope the codec has produced, the content of a response or
\* the data of an event a generator yielded, has exactly one of the members
\* result and error.
C27_ResultXorError ==
    /\ HasEnvelope => ResultXorError(http.response.content)
    /\ \A s \in SubIds : \A i \in DOMAIN subs[s].events :
           ResultXorError(subs[s].events[i].data)

\* A failed event has been yielded and a search has been answered.
C27_Witness ==
    /\ http.endpoint = "search"
    /\ "result" \in DOMAIN http.response.content
    /\ \E s \in SubIds : subs[s].pc = "done" /\ Last(subs[s].events).event = "failed"

\* C29: every write to a task record (by create_task, the executor or the
\* timeout branch of a generator) and every read of its fields by get_task
\* or a generator happens while the coroutine holds that task's own lock,
\* and a lock never has two holders.  Line by line: a coroutine that is about
\* to execute lines that read or write the record of its task holds the lock
\* of that task, no lock has more than one holder, and a step that stores or
\* changes the record of a task is a step of the holder of its lock.
HoldsOwnLock(c) ==
    /\ at_line[c].task_id \in DOMAIN lock_holder
    /\ c \in lock_holder[at_line[c].task_id]

WrittenBy(task_id) ==
    {c \in LockCoroutines : at_line[c].task_id = task_id /\ at_line'[c] # at_line[c]}

C29_UnderLock ==
    /\ [](/\ \A c \in LockCoroutines :
                at_line[c].line \in RecordLines[c] => HoldsOwnLock(c)
          /\ \A task_id \in DOMAIN lock_holder :
                Cardinality(lock_holder[task_id]) <= 1)
    /\ [][\A task_id \in DOMAIN _tasks' :
             (task_id \notin DOMAIN _tasks \/ _tasks'[task_id] # _tasks[task_id])
             => /\ task_id \in DOMAIN lock_holder
                /\ WrittenBy(task_id) # {}
                /\ WrittenBy(task_id) \subseteq lock_holder[task_id]]_vars

\* C29 witness: the generator holds the lock of task 1 in its timeout
\* branch, about to force the record to failed, while the executor of the
\* same task is at line 85 and get_task has not got the lock.
C29_Witness ==
    /\ at_line[Generator].line = 170
    /\ at_line[Generator].task_id = 1
    /\ lock_holder[1] = {Generator}
    /\ at_line[Executor(1)].line = 85
    /\ at_line[Reader].line = 0
    /\ ~ ENABLED get_task_112(1)

\* C30: the executor holds the task's lock for its record updates only and
\* never while the skill runs (line 85), so that during the invocation
\* get_task and the generators can take the lock and find the record
\* running: while the executor is at line 85 it does not hold the lock, only
\* get_task or the generator can hold it, and when neither does, a call of
\* get_task gets it and a generator waiting for it at line 197 gets it.
C30_SkillOutsideLock ==
    \A task_id \in TaskIds :
        at_line[Executor(task_id)].line = 85
        => /\ Executor(task_id) \notin lock_holder[task_id]
           /\ lock_holder[task_id] \subseteq {Reader, Generator}
           /\ (at_line[Reader].line = 0 /\ lock_holder[task_id] = {})
              => ENABLED get_task_112(task_id)
           /\ (at_line[Generator].line = 197 /\ at_line[Generator].task_id = task_id
               /\ lock_holder[task_id] = {}) => ENABLED generate_task_events_acquire

\* C30 witness: the skill of task 1 is running and get_task holds the
\* lock, reading a record whose status is running, while a generator that
\* has read the same status waits for the lock at line 197.
C30_Witness ==
    /\ at_line[Executor(1)].line = 85
    /\ at_line[Reader].line = 117
    /\ at_line[Reader].task_id = 1
    /\ lock_holder[1] = {Reader}
    /\ _tasks[1].status = "running"
    /\ at_line[Generator].line = 197
    /\ at_line[Generator].task_id = 1
    /\ at_line[Generator].task_status = "running"

\* The step is the timeout branch of the generator s (lines 168-174).
TimeoutBranch(s) ==
    AtTimeout(s) /\ (ResumeHeartbeatAccepted(s) \/ WakeAccepted(s))

\* C31: every step of a generator other than its timeout branch (the
\* initial read and the accepted event, a poll, a heartbeat, the running
\* event, the final read and the terminal event, the end of the stream)
\* leaves every task record as it was, however many generators there are.
C31_ReadOnly ==
    [][\A s \in SubIds :
          (/\ SubStep(s) \/ \E task_id \in TaskIds : Subscribe(s, task_id)
           /\ ~TimeoutBranch(s))
              => _tasks' = _tasks]_vars

\* C31 witness: a generator asleep in its running loop after an initial
\* read, polls, two heartbeats and the running event, and the record it
\* polls is as the executor left it.
C31_Witness ==
    \E s \in SubIds :
        /\ subs[s].pc = "sleep_running"
        /\ EventTypes(subs[s]) = <<"accepted", "heartbeat", "running", "heartbeat">>
        /\ _tasks[subs[s].task_id] =
               SetRunning(NewTask(_tasks[subs[s].task_id]["function"],
                                  _tasks[subs[s].task_id].args,
                                  _tasks[subs[s].task_id].request_id))

\* C32: the first event of every started generator is accepted, whatever
\* status it read at line 154.  A generator that read completed or failed
\* yields accepted and then that terminal event and nothing else; one that
\* read running yields running as its second event.
C32_AcceptedFirst ==
    \A s \in SubIds :
        LET types == EventTypes(subs[s])
            read == subs[s].initial_status IN
        /\ subs[s].pc \notin {"idle", "KeyError"} => types # <<>> /\ types[1] = "accepted"
        /\ read \in Terminal
               => /\ subs[s].pc \in {"yield_accepted", "yield_final", "done"}
                  /\ types = IF subs[s].pc = "yield_accepted"
                             THEN <<"accepted">> ELSE <<"accepted", read>>
        /\ read = "running"
               => /\ subs[s].pc # "yield_accepted" => Len(types) >= 2
                  /\ Len(types) >= 2 => types[2] = "running"

\* C32 witness: a stream started on a completed task has ended after
\* accepted and completed, although the consumer held the accepted event
\* for longer than the heartbeat interval.
C32_Witness ==
    \E s \in SubIds :
        /\ subs[s].pc = "done"
        /\ subs[s].initial_status = "completed"
        /\ subs[s].since_heartbeat > heartbeat_interval
        /\ EventTypes(subs[s]) = <<"accepted", "completed">>

\* The record of task_id is Running and its skill has not returned.
RunningForever(task_id) ==
    /\ task_id \in DOMAIN _tasks
    /\ _tasks[task_id].status = "running"
    /\ \A e \in ExecutorsOf(task_id) : executors[e].pc = "awaiting"

\* C33 (as claimed, the part a finite run can refute): while a task is
\* Running and its skill has not returned, no step of a generator of that
\* task forces the record to Failed or yields a terminal event.
C33_NoTerminalWhileRunning ==
    [][\A s \in SubIds :
          (RunningForever(subs[s].task_id) /\ SubStep(s))
              => /\ _tasks'[subs[s].task_id].status = "running"
                 /\ Len(subs'[s].events) > Len(subs[s].events)
                        => Last(subs'[s].events).event \notin Terminal]_vars

\* C34: no step removes a record or a lock; every id create_task has
\* returned has a record, which task_exists finds and get_task returns, and
\* every id that has a record has a lock.
C34_NeverRemoved ==
    /\ [](/\ \A task_id \in Range(returned) :
                /\ task_exists(task_id)
                /\ get_task(task_id) = _tasks[task_id]
          /\ DOMAIN _tasks \subseteq DOMAIN _task_locks)
    /\ [][/\ DOMAIN _tasks \subseteq DOMAIN _tasks'
          /\ DOMAIN _task_locks \subseteq DOMAIN _task_locks']_vars

\* C34 witness: the task is finished, its executor has ended and its only
\* stream has ended, and the record and the lock are still there.
C34_Witness ==
    /\ Len(returned) = 1
    /\ \A e \in DOMAIN executors : executors[e].pc = "done"
    /\ \A s \in SubIds : subs[s].pc = "done" /\ subs[s].task_id = returned[1]
    /\ task_exists(returned[1])
    /\ get_task(returned[1]).status \in Terminal
    /\ returned[1] \in DOMAIN _task_locks

\* Nothing will write the record of task_id again: its executor has ended
\* and each of its generators has ended.
Settled(task_id) ==
    /\ \A e \in ExecutorsOf(task_id) : executors[e].pc = "done"
    /\ \A s \in SubIds :
           subs[s].task_id = task_id => subs[s].pc \in {"idle", "KeyError", "done"}

\* C35 (as claimed): the streams of one task that have ended all ended with
\* the same terminal event, and once nothing writes the record any more that
\* event is the one of the record's status.
C35_SameTerminalEvent ==
    \A s \in SubIds :
        subs[s].pc = "done"
            => /\ \A r \in SubIds :
                      (subs[r].pc = "done" /\ subs[r].task_id = subs[s].task_id)
                          => Last(EventTypes(subs[r])) = Last(EventTypes(subs[s]))
               /\ Settled(subs[s].task_id)
                      => Last(EventTypes(subs[s])) = _tasks[subs[s].task_id].status

\* C36: no event is ahead of the record.  A generator that has yielded
\* running belongs to a task whose executor has run lines 74-82, and one that
\* has yielded completed belongs to a task whose executor has ended with the
\* skill's return value stored as the result.
C36_NoAnticipation ==
    \A s \in SubIds :
        LET task_id == subs[s].task_id
            types == Range(EventTypes(subs[s])) IN
        /\ "running" \in types
               => /\ ExecutorsOf(task_id) # {}
                  /\ \A e \in ExecutorsOf(task_id) : executors[e].pc # "scheduled"
        /\ "completed" \in types
               => /\ ExecutorsOf(task_id) # {}
                  /\ \A e \in ExecutorsOf(task_id) :
                         /\ executors[e].pc = "done"
                         /\ SkillReturns(executors[e].fn)
                         /\ _tasks[task_id].result =
                                SkillResult(executors[e].fn, executors[e].args)

\* C36 witness: a generator that polled the record before the executor's
\* first step and again while the skill ran has yielded running and then
\* completed, the result being the empty string.
C36_Witness ==
    \E s \in SubIds :
        /\ subs[s].initial_status = "accepted"
        /\ EventTypes(subs[s]) = <<"accepted", "running", "completed">>
        /\ _tasks[subs[s].task_id].result = ""
        /\ _tasks[subs[s].task_id].status = "completed"

\* The lines at which a coroutine waits for the lock of its task, and the
\* lines it is at once it has it.
WaitLines(c) ==
    IF c = Generator THEN {169, 177, 197, 209} ELSE {65, 85}

C38_FrameOfWrites ==
    [][\A task_id \in DOMAIN _tasks :
          LET old == _tasks[task_id]
              new == _tasks'[task_id] IN
          /\ new.request_id = old.request_id
          /\ new["function"] = old["function"]
          /\ new.args = old.args
          /\ new.created_at = old.created_at
          /\ (new.result # old.result \/ new.last_update # old.last_update)
                 => ~ \E s \in SubIds : SubStep(s)]_vars

\* C38 witness: a record written by create_task, by the executor (lines
\* 81-82) and then by a timeout branch: status and error are the timeout
\* branch's, last_update is still the executor's, the rest is as created.
C38_Witness ==
    \E task_id \in DOMAIN _tasks :
        _tasks[task_id] =
            [NewTask(_tasks[task_id]["function"], _tasks[task_id].args,
                     _tasks[task_id].request_id)
                 EXCEPT !.status = "failed", !.error = TimeoutMessage,
                        !.last_update = "running"]

\* C39 (as claimed): with consumers that take every event at once, a
\* generator of a task that is not terminal, waiting between two events, has
\* never been silent for more than the heartbeat interval and a poll (the
\* clock counts whole seconds: more than heartbeat_interval is 11 s or more).
C39_EventGap ==
    \A s \in SubIds :
        (/\ subs[s].pc \in {"sleep_accepted", "sleep_running"}
         /\ _tasks[subs[s].task_id].status \notin Terminal)
            => subs[s].since_event <= heartbeat_interval

====
